---- MODULE Spec2Model ----
(***************************************************************************)
(* Model of archiver-mcp-server: the protobuf sample decoder               *)
(* (protobuf_parser.py), the archiver HTTP client (archiver_client.py) and *)
(* the two MCP tools get_pv_data / get_pv_statistics (server.py).          *)
(*                                                                         *)
(* Numbers.  Sample values are finite doubles; the model uses small        *)
(* integers for the wire values and exact fractions [num, den] for derived *)
(* statistics.  Python's None and the float NaN are separate values.       *)
(* Timestamps are modelled with the rounding the code performs: the sum    *)
(* base + secondsintoyear + nano / 1e9 is a double (spacing 2^-22 s for    *)
(* instants between 2004 and 2038), and datetime.fromtimestamp rounds it   *)
(* half-to-even to whole microseconds.                                     *)
(***************************************************************************)
EXTENDS Integers, Sequences, FiniteSets, TLC

\* ------------------------------------------------------------------------
\* Bounds of the model
\* ------------------------------------------------------------------------
NumRequests == 2
MaxSamples == 2

\* ------------------------------------------------------------------------
\* Python values
\* ------------------------------------------------------------------------
PyNone == [none |-> TRUE]
NaN == [nan |-> TRUE]
Float(n) == [num |-> n, den |-> 1]

IsFloat(x) == DOMAIN x = {"num", "den"}
IsNone(x) == x = PyNone
IsNaN(x) == x = NaN

RECURSIVE Gcd(_, _)
Gcd(a, b) == IF b = 0 THEN a ELSE Gcd(b, a % b)

\* the exact quotient n / d, d > 0, in lowest terms
Frac(n, d) ==
    LET g == Gcd(IF n < 0 THEN -n ELSE n, d)
    IN  IF g = 0 THEN [num |-> 0, den |-> 1]
        ELSE [num |-> n \div g, den |-> d \div g]

\* ------------------------------------------------------------------------
\* Wire buffers.  A byte buffer is modelled by what it parses to:
\*   "empty"     the zero-length buffer
\*   "malformed" bytes that are no serialized Payload
\*   "payload"   a serialized Payload: an optional info header carrying the
\*               year, and the ordered sample records
\* ------------------------------------------------------------------------
SecondsPerDay == 86400
NanosPerSecond == 1000000000
MicrosPerSecond == 1000000
MINYEAR == 1
MAXYEAR == 9999

Years == {2024, 2025}

\* records that vary value and severity
ValueRecords ==
    { [val |-> v, secondsintoyear |-> 0, nano |-> 0, severity |-> sv, status |-> 0] :
        v \in {<< >>, <<1>>, <<3>>, <<2, 7>>}, sv \in {0, 1} }

\* records that vary the time fields, in and out of their nominal ranges
TimeRecords ==
    { [val |-> <<1>>, secondsintoyear |-> 1, nano |-> n, severity |-> 2, status |-> 3] :
        n \in {500, 1500, 500000000, 1000000000} }
    \cup
    { [val |-> <<1>>, secondsintoyear |-> 31622400, nano |-> 0, severity |-> 2, status |-> 3] }

SampleRecords == ValueRecords \cup TimeRecords

SeqsUpTo(S, n) == UNION { [1..k -> S] : k \in 0..n }

EmptyBytes == [wire |-> "empty"]
MalformedBytes == [wire |-> "malformed"]

PayloadBytes ==
    { [wire |-> "payload", has_info |-> TRUE, year |-> y, sample |-> ss] :
        y \in Years, ss \in SeqsUpTo(SampleRecords, MaxSamples) }
    \cup
    { [wire |-> "payload", has_info |-> FALSE, year |-> 0, sample |-> ss] :
        ss \in SeqsUpTo(SampleRecords, MaxSamples) \ {<< >>} }

AllBuffers == {EmptyBytes, MalformedBytes} \cup PayloadBytes

\* len(raw_data)
ByteLen(raw) == IF raw.wire = "empty" THEN 0 ELSE 1

\* ------------------------------------------------------------------------
\* payload_pb2.Payload().ParseFromString: the generated schema module is not
\* part of the sources; the envelope is the one the specification describes
\* (a header with the year, an ordered list of sample records).  Unset
\* scalar fields read as 0, unset repeated fields as empty.
\* ------------------------------------------------------------------------
ParseFromString(raw) ==
    CASE raw.wire = "malformed" -> [raised |-> "DecodeError"]
      [] raw.wire = "empty" ->
            [raised |-> "None", info |-> [year |-> 0], sample |-> << >>]
      [] OTHER ->
            [raised |-> "None",
             info |-> [year |-> IF raw.has_info THEN raw.year ELSE 0],
             sample |-> raw.sample]

\* ------------------------------------------------------------------------
\* Timestamp arithmetic (protobuf_parser.py lines 25, 30, 31)
\* ------------------------------------------------------------------------
LeapsBefore(y) == ((y - 1) \div 4) - ((y - 1) \div 100) + ((y - 1) \div 400)

\* datetime(year, 1, 1, tzinfo=utc).timestamp(): epoch seconds of Jan 1
BaseTimestamp(year) ==
    (365 * (year - 1970) + LeapsBefore(year) - LeapsBefore(1970)) * SecondsPerDay

\* n / d rounded to the nearest integer, n >= 0 (no tie occurs where used)
RoundDiv(n, d) == (2 * n + d) \div (2 * d)

\* sample.nano / 1e9 as it lands in the double sum: the number of 2^-22 s
\* steps nearest to nano * 2^22 / 10^9 = nano * 8192 / 1953125
NanoToUlps(nano) ==
    LET q == nano \div 1953125
        r == nano % 1953125
        a == (r * 64) \div 1953125
        b == (r * 64) % 1953125
    IN  q * 8192 + a * 128 + RoundDiv(b * 128, 1953125)

\* variant of TimestampSum that leaves the nanoseconds out
TimestampSumWithoutNano(year, secondsintoyear, nano) ==
    [sec |-> BaseTimestamp(year) + secondsintoyear, ulps |-> 0]

\* base_date.timestamp() + sample.secondsintoyear + (sample.nano / 1e9),
\* a double: whole seconds and 2^-22 s steps
TimestampSum(year, secondsintoyear, nano) ==
    [sec |-> BaseTimestamp(year) + secondsintoyear, ulps |-> NanoToUlps(nano)]

\* datetime.fromtimestamp(timestamp, tz=utc): seconds plus microseconds,
\* the fraction rounded half-to-even; frac * 10^6 = ulps * 15625 / 65536
FromTimestamp(ts) ==
    LET whole == ts.sec + (ts.ulps \div 4194304)
        f == ts.ulps % 4194304
        hi == f \div 65536
        lo == f % 65536
        n == lo * 15625
        fl == hi * 15625 + (n \div 65536)
        rem == n % 65536
        us == IF 2 * rem > 65536 THEN fl + 1
              ELSE IF 2 * rem = 65536 /\ fl % 2 = 1 THEN fl + 1
              ELSE fl
    IN  IF us = MicrosPerSecond THEN [sec |-> whole + 1, us |-> 0]
        ELSE [sec |-> whole, us |-> us]

\* ------------------------------------------------------------------------
\* ProtobufParser.parse_to_dataframe
\* ------------------------------------------------------------------------
\* value = sample.val[0] if len(sample.val) > 0 else None
ScalarValue(sample) ==
    IF Len(sample.val) > 0 THEN Float(sample.val[1]) ELSE PyNone

\* one entry of `records`
RecordOf(year, sample) ==
    [timestamp |-> FromTimestamp(TimestampSum(year, sample.secondsintoyear, sample.nano)),
     value |-> ScalarValue(sample),
     severity |-> sample.severity,
     status |-> sample.status]

\* pd.DataFrame(records): no columns when there are no records; a value
\* column holding only None keeps dtype object, one mixing floats and None
\* becomes float64 with NaN for None
DataFrame(records) ==
    LET somePresent == \E i \in 1..Len(records) : IsFloat(records[i].value)
    IN  [columns |-> IF records = << >> THEN {}
                     ELSE {"timestamp", "value", "severity", "status"},
         rows |-> [i \in 1..Len(records) |->
                     [records[i] EXCEPT
                        !.value = IF IsNone(@) /\ somePresent THEN NaN ELSE @]]]

parse_to_dataframe(raw_data) ==
    LET payload == ParseFromString(raw_data)
    IN  IF payload.raised # "None" THEN [raised |-> payload.raised]
        ELSE IF payload.info.year < MINYEAR \/ payload.info.year > MAXYEAR
             THEN [raised |-> "ValueError"]
        ELSE [raised |-> "None",
              df |-> DataFrame([i \in 1..Len(payload.sample) |->
                                  RecordOf(payload.info.year, payload.sample[i])])]

\* ProtobufParser.parse_to_dict: df['timestamp'] needs the column, and the
\* .dt accessor of a datetime column has no isoformat attribute
parse_to_dict(raw_data) ==
    LET parsed == parse_to_dataframe(raw_data)
    IN  IF parsed.raised # "None" THEN [raised |-> parsed.raised]
        ELSE IF "timestamp" \notin parsed.df.columns THEN [raised |-> "KeyError"]
        ELSE [raised |-> "AttributeError"]

\* ------------------------------------------------------------------------
\* pandas Series reductions used by the tools (NaN and None are skipped)
\* ------------------------------------------------------------------------
\* df['value'], df['severity']
ValueColumn(df) == [i \in 1..Len(df.rows) |-> df.rows[i].value]
SeverityColumn(df) == [i \in 1..Len(df.rows) |-> df.rows[i].severity]

\* the non-missing entries of a value column, as numbers, in order
PresentValues(col) ==
    LET present == SelectSeq(col, IsFloat)
    IN  [i \in 1..Len(present) |-> present[i].num]

RECURSIVE SumSeq(_)
SumSeq(s) == IF s = << >> THEN 0 ELSE Head(s) + SumSeq(Tail(s))

RECURSIVE SumSquares(_)
SumSquares(s) == IF s = << >> THEN 0 ELSE Head(s) * Head(s) + SumSquares(Tail(s))

RECURSIVE Insert(_, _)
Insert(x, s) ==
    IF s = << >> THEN <<x>>
    ELSE IF x <= Head(s) THEN <<x>> \o s
    ELSE <<Head(s)>> \o Insert(x, Tail(s))

RECURSIVE SortedSeq(_)
SortedSeq(s) == IF s = << >> THEN << >> ELSE Insert(Head(s), SortedSeq(Tail(s)))

\* Series.mean()
SeriesMean(col) ==
    LET xs == PresentValues(col)
    IN  IF xs = << >> THEN NaN ELSE Frac(SumSeq(xs), Len(xs))

\* Series.median(): the middle of the sorted values, or the mean of the two
SeriesMedian(col) ==
    LET xs == SortedSeq(PresentValues(col))
        n == Len(xs)
    IN  IF n = 0 THEN NaN
        ELSE IF n % 2 = 1 THEN Float(xs[(n + 1) \div 2])
        ELSE Frac(xs[n \div 2] + xs[(n \div 2) + 1], 2)

\* variant of SeriesStd with ddof = 0: one value has deviation 0
SeriesStdPopulation(col) ==
    LET xs == PresentValues(col)
        n == Len(xs)
    IN  IF n = 0 THEN NaN
        ELSE [sqrt_of |-> Frac(n * SumSquares(xs) - SumSeq(xs) * SumSeq(xs), n * n)]

\* Series.std(): ddof = 1; the square root of the variance is kept symbolic.
\* Fewer than two values give NaN.
SeriesStd(col) ==
    LET xs == PresentValues(col)
        n == Len(xs)
    IN  IF n < 2 THEN NaN
        ELSE [sqrt_of |-> Frac(n * SumSquares(xs) - SumSeq(xs) * SumSeq(xs), n * (n - 1))]

\* Series.min(), Series.max()
SeriesMin(col) ==
    LET xs == SortedSeq(PresentValues(col))
    IN  IF xs = << >> THEN NaN ELSE Float(xs[1])

SeriesMax(col) ==
    LET xs == SortedSeq(PresentValues(col))
    IN  IF xs = << >> THEN NaN ELSE Float(xs[Len(xs)])

\* Series.iloc[0], Series.iloc[-1]: positional
IlocFirst(col) == col[1]
IlocLast(col) == col[Len(col)]

\* variant of NullCount that misses the NaN of a float64 column
NullCountNoneOnly(col) == Cardinality({i \in 1..Len(col) : IsNone(col[i])})

\* Series.isna().sum()
NullCount(col) == Cardinality({i \in 1..Len(col) : IsNone(col[i]) \/ IsNaN(col[i])})

\* Series.value_counts().to_dict()
ValueCounts(col) ==
    [v \in {col[i] : i \in 1..Len(col)} |->
        Cardinality({i \in 1..Len(col) : col[i] = v})]

\* float(x) raises TypeError for None; NaN and floats pass through
FloatRaises(x) == IsNone(x)

\* ------------------------------------------------------------------------
\* ArchiverClient.fetch_pv_data: what the HTTP exchange can end in
\* ------------------------------------------------------------------------
HttpFailures == { [kind |-> "HTTPStatusError"], [kind |-> "RequestError"] }

HttpResponses(buffers) == HttpFailures \cup { [kind |-> "ok", content |-> b] : b \in buffers }

\* response.content, or None when raise_for_status or the request raised
fetch_pv_data(response) ==
    IF response.kind = "ok" THEN response.content ELSE PyNone

\* ------------------------------------------------------------------------
\* server.py: the tools
\* ------------------------------------------------------------------------
ToolNames == {"get_pv_data", "get_pv_statistics"}
CallNames == ToolNames \cup {"get_pv_list"}

StartTime == "2024-01-01T00:00:00Z"
EndTime == "2024-01-02T00:00:00Z"

\* the argument dicts a client sends: the required keys, format optional
Arguments(pvs, formats) ==
    { [pv_name |-> p, start_time |-> StartTime, end_time |-> EndTime] : p \in pvs }
    \cup
    { [pv_name |-> p, start_time |-> StartTime, end_time |-> EndTime, format |-> f] :
        p \in pvs, f \in formats }

\* args.get("format", "json")
OutputFormat(args) == IF "format" \in DOMAIN args THEN args.format ELSE "json"

TextContent(text) == [type |-> "text", text |-> text]
Returned(content) == [returned |-> <<content>>]
Raised(exception) == [raised |-> exception]

\* variant of NoData that only tests for None
NoDataNoneOnly(raw_data) == IsNone(raw_data)

\* raw_data is None or len(raw_data) == 0
NoData(raw_data) == IsNone(raw_data) \/ ByteLen(raw_data) = 0

TimeRange(args) == [start |-> args.start_time, end |-> args.end_time]

\* the summary dict of get_pv_data_tool
Summary(args, df) ==
    LET n == Len(df.rows)
    IN  [pv_name |-> args.pv_name,
         time_range |-> TimeRange(args),
         sample_count |-> n,
         mean |-> IF n > 0 THEN SeriesMean(ValueColumn(df)) ELSE PyNone,
         std |-> IF n > 0 THEN SeriesStd(ValueColumn(df)) ELSE PyNone,
         min |-> IF n > 0 THEN SeriesMin(ValueColumn(df)) ELSE PyNone,
         max |-> IF n > 0 THEN SeriesMax(ValueColumn(df)) ELSE PyNone]

ErrorParsing(args, exception) ==
    Returned(TextContent([message |-> "Error parsing data for",
                          pv_name |-> args.pv_name, error |-> exception]))

get_pv_data_tool(args, raw_data) ==
    IF NoData(raw_data)
    THEN Returned(TextContent([message |-> "No data found for PV",
                               pv_name |-> args.pv_name,
                               start_time |-> args.start_time,
                               end_time |-> args.end_time]))
    ELSE IF OutputFormat(args) = "summary"
    THEN LET parsed == parse_to_dataframe(raw_data)
         IN  IF parsed.raised # "None" THEN ErrorParsing(args, parsed.raised)
             ELSE Returned(TextContent([json |-> Summary(args, parsed.df)]))
    ELSE LET data_dict == parse_to_dict(raw_data)
         IN  IF data_dict.raised # "None" THEN ErrorParsing(args, data_dict.raised)
             ELSE Returned(TextContent(
                     [json |-> [data |-> data_dict.dict, pv_name |-> args.pv_name]]))

\* the stats dict of get_pv_statistics_tool
Statistics(args, df) ==
    LET col == ValueColumn(df)
    IN  [pv_name |-> args.pv_name,
         time_range |-> TimeRange(args),
         statistics |->
            [count |-> Len(df.rows),
             mean |-> SeriesMean(col),
             median |-> SeriesMedian(col),
             std |-> SeriesStd(col),
             min |-> SeriesMin(col),
             max |-> SeriesMax(col),
             first_value |-> IlocFirst(col),
             last_value |-> IlocLast(col)],
         data_quality |->
            [null_count |-> NullCount(col),
             severity_distribution |-> ValueCounts(SeverityColumn(df))]]

\* the exception, if any, that building the stats dict raises
StatisticsRaises(df) ==
    IF "value" \notin df.columns THEN "KeyError"
    ELSE IF FloatRaises(IlocFirst(ValueColumn(df))) \/ FloatRaises(IlocLast(ValueColumn(df)))
         THEN "TypeError"
    ELSE "None"

ErrorStatistics(exception) ==
    Returned(TextContent([message |-> "Error calculating statistics", error |-> exception]))

\* variant of get_pv_statistics_tool whose try block catches nothing
get_pv_statistics_tool_uncaught(args, raw_data) ==
    IF NoData(raw_data)
    THEN Returned(TextContent([message |-> "No data available for statistics"]))
    ELSE LET parsed == parse_to_dataframe(raw_data)
         IN  IF parsed.raised # "None" THEN Raised(parsed.raised)
             ELSE IF StatisticsRaises(parsed.df) # "None"
                  THEN Raised(StatisticsRaises(parsed.df))
             ELSE Returned(TextContent([json |-> Statistics(args, parsed.df)]))

get_pv_statistics_tool(args, raw_data) ==
    IF NoData(raw_data)
    THEN Returned(TextContent([message |-> "No data available for statistics"]))
    ELSE LET parsed == parse_to_dataframe(raw_data)
         IN  IF parsed.raised # "None" THEN ErrorStatistics(parsed.raised)
             ELSE IF StatisticsRaises(parsed.df) # "None"
                  THEN ErrorStatistics(StatisticsRaises(parsed.df))
             ELSE Returned(TextContent([json |-> Statistics(args, parsed.df)]))

\* ------------------------------------------------------------------------
\* State
\* ------------------------------------------------------------------------
VARIABLES
    pc,            \* per tool call: where handle_call_tool stands
    name,          \* per tool call: the tool name it was called with
    arguments,     \* per tool call: its argument dict
    response,      \* per tool call: how its HTTP exchange ended
    raw_data,      \* per tool call: the local raw_data of the tool function
    result,        \* per tool call: what handle_call_tool returned or raised
    fetches,       \* per tool call: fetch_pv_data calls it issued
    parser_calls,  \* per tool call: ProtobufParser calls it made
    buffer,        \* argument of a direct call of the parser
    df_out,        \* what parse_to_dataframe(buffer) returned or raised
    dict_out       \* what parse_to_dict(buffer) returned or raised

serverVars == <<pc, name, arguments, response, raw_data, result, fetches, parser_calls>>
parserVars == <<buffer, df_out, dict_out>>
vars == <<pc, name, arguments, response, raw_data, result, fetches, parser_calls,
          buffer, df_out, dict_out>>

Requests == 1..NumRequests

Unset == [unset |-> TRUE]
NotCalled == [called |-> FALSE]

InitServer ==
    /\ pc = [r \in Requests |-> "idle"]
    /\ name = [r \in Requests |-> ""]
    /\ arguments = [r \in Requests |-> Unset]
    /\ response = [r \in Requests |-> Unset]
    /\ raw_data = [r \in Requests |-> Unset]
    /\ result = [r \in Requests |-> Unset]
    /\ fetches = [r \in Requests |-> 0]
    /\ parser_calls = [r \in Requests |-> 0]

\* variant of LocalRawData in which raw_data is one module-level variable:
\* every tool call reads the buffer of the same fetch
SharedRawData(r) == raw_data[CHOOSE q \in Requests : raw_data[q] # Unset]

\* the tool's local variable raw_data, as tool call r reads it
LocalRawData(r) == raw_data[r]

\* handle_call_tool(name, arguments) up to its first suspension: an unknown
\* name raises at once, a tool starts its fetch
CallTool(r, args) ==
    /\ pc[r] = "idle"
    /\ \E n \in CallNames, a \in args :
        /\ name' = [name EXCEPT ![r] = n]
        /\ arguments' = [arguments EXCEPT ![r] = a]
        /\ IF n \in ToolNames
           THEN /\ pc' = [pc EXCEPT ![r] = "awaiting_fetch"]
                /\ fetches' = [fetches EXCEPT ![r] = @ + 1]
                /\ UNCHANGED result
           ELSE /\ pc' = [pc EXCEPT ![r] = "raised"]
                /\ result' = [result EXCEPT ![r] = Raised("ValueError")]
                /\ UNCHANGED fetches
    /\ UNCHANGED <<response, raw_data, parser_calls, parserVars>>

\* the HTTP exchange of fetch_pv_data ends and the tool's await returns
FetchReturns(r, buffers) ==
    /\ pc[r] = "awaiting_fetch"
    /\ \E resp \in HttpResponses(buffers) :
        /\ response' = [response EXCEPT ![r] = resp]
        /\ raw_data' = [raw_data EXCEPT ![r] = fetch_pv_data(resp)]
    /\ pc' = [pc EXCEPT ![r] = "fetched"]
    /\ UNCHANGED <<name, arguments, result, fetches, parser_calls, parserVars>>

\* the rest of get_pv_data_tool, which runs without suspending
FinishGetPvData(r) ==
    /\ pc[r] = "fetched"
    /\ name[r] = "get_pv_data"
    /\ result' = [result EXCEPT ![r] = get_pv_data_tool(arguments[r], LocalRawData(r))]
    /\ parser_calls' = [parser_calls EXCEPT
                          ![r] = IF NoData(LocalRawData(r)) THEN @ ELSE @ + 1]
    /\ pc' = [pc EXCEPT ![r] = IF "raised" \in DOMAIN result'[r] THEN "raised" ELSE "done"]
    /\ UNCHANGED <<name, arguments, response, raw_data, fetches, parserVars>>

\* the rest of get_pv_statistics_tool, which runs without suspending
FinishGetPvStatistics(r) ==
    /\ pc[r] = "fetched"
    /\ name[r] = "get_pv_statistics"
    /\ result' = [result EXCEPT ![r] = get_pv_statistics_tool(arguments[r], LocalRawData(r))]
    /\ parser_calls' = [parser_calls EXCEPT
                          ![r] = IF NoData(LocalRawData(r)) THEN @ ELSE @ + 1]
    /\ pc' = [pc EXCEPT ![r] = IF "raised" \in DOMAIN result'[r] THEN "raised" ELSE "done"]
    /\ UNCHANGED <<name, arguments, response, raw_data, fetches, parserVars>>

\* ------------------------------------------------------------------------
\* Spec: one tool call, every buffer of the bounded wire domain
\* ------------------------------------------------------------------------
Init ==
    /\ InitServer
    /\ buffer = EmptyBytes
    /\ df_out = NotCalled
    /\ dict_out = NotCalled

Next ==
    \/ CallTool(1, Arguments({"PV:A"}, {"json", "summary"}))
    \/ FetchReturns(1, AllBuffers)
    \/ FinishGetPvData(1)
    \/ FinishGetPvStatistics(1)

Spec == Init /\ [][Next]_vars

\* ------------------------------------------------------------------------
\* SpecConcurrent: NumRequests tool calls interleaved at their fetches
\* ------------------------------------------------------------------------
OneSample(v) ==
    [val |-> v, secondsintoyear |-> 0, nano |-> 0, severity |-> 0, status |-> 0]

ConcurrentBuffers ==
    { EmptyBytes,
      [wire |-> "payload", has_info |-> TRUE, year |-> 2024, sample |-> << >>],
      [wire |-> "payload", has_info |-> TRUE, year |-> 2024,
       sample |-> <<OneSample(<< >>), OneSample(<<3>>)>>] }

ConcurrentArguments ==
    { a \in Arguments({"PV:A", "PV:B"}, {"summary"}) : "format" \in DOMAIN a }

NextConcurrent ==
    \E r \in Requests :
        \/ CallTool(r, ConcurrentArguments)
        \/ FetchReturns(r, ConcurrentBuffers)
        \/ FinishGetPvData(r)
        \/ FinishGetPvStatistics(r)

SpecConcurrent == Init /\ [][NextConcurrent]_vars

\* ------------------------------------------------------------------------
\* SpecParser: direct calls of the parser on every buffer of the domain
\* ------------------------------------------------------------------------
InitParser ==
    /\ InitServer
    /\ buffer \in AllBuffers
    /\ df_out = NotCalled
    /\ dict_out = NotCalled

CallParseToDataframe ==
    /\ df_out = NotCalled
    /\ df_out' = parse_to_dataframe(buffer)
    /\ UNCHANGED <<buffer, dict_out, serverVars>>

CallParseToDict ==
    /\ dict_out = NotCalled
    /\ dict_out' = parse_to_dict(buffer)
    /\ UNCHANGED <<buffer, df_out, serverVars>>

NextParser == CallParseToDataframe \/ CallParseToDict

SpecParser == InitParser /\ [][NextParser]_vars

\* ------------------------------------------------------------------------
\* Vocabulary of the properties
\* ------------------------------------------------------------------------
\* tool call r is a known tool whose handler has run to its end
Completed(r) == name[r] \in ToolNames /\ pc[r] \in {"done", "raised"}

\* the fetch of tool call r brought a non-empty buffer
FetchedData(r) == response[r].kind = "ok" /\ ByteLen(response[r].content) > 0

\* the fetch of tool call r brought a payload with a year header
FetchedSeries(r) ==
    /\ response[r].kind = "ok"
    /\ response[r].content.wire = "payload"
    /\ response[r].content.has_info

WireSamples(r) == response[r].content.sample

\* the wire records that carry a value, in buffer order
PresentRecords(samples) == SelectSeq(samples, LAMBDA smp : Len(smp.val) > 0)

StatisticsRequested(r) ==
    \/ name[r] = "get_pv_statistics"
    \/ name[r] = "get_pv_data" /\ OutputFormat(arguments[r]) = "summary"

IsReport(res) == "returned" \in DOMAIN res /\ "json" \in DOMAIN res.returned[1].text
ReportBody(res) == res.returned[1].text.json

IsNoDataMessage(res) ==
    /\ "returned" \in DOMAIN res
    /\ "message" \in DOMAIN res.returned[1].text
    /\ res.returned[1].text.message \in
          {"No data found for PV", "No data available for statistics"}

\* what the caller can read off a result without reading its message text
OutcomeKind(res) ==
    IF "raised" \in DOMAIN res THEN res.raised ELSE res.returned[1].type

\* the result of a tool as a function of its own inputs
ExpectedResult(n, args, raw) ==
    IF n = "get_pv_data" THEN get_pv_data_tool(args, raw)
    ELSE get_pv_statistics_tool(args, raw)

\* the mean/std/min/max part of a report of either tool
ReportedNumbers(r) ==
    IF name[r] = "get_pv_statistics" THEN ReportBody(result[r]).statistics
    ELSE ReportBody(result[r])

MissingYearBytes ==
    [wire |-> "payload", has_info |-> FALSE, year |-> 0, sample |-> <<OneSample(<<1>>)>>]

AbsDiff(a, b) == IF a < b THEN b - a ELSE a - b

\* ------------------------------------------------------------------------
\* Properties
\* ------------------------------------------------------------------------

\* C1: a statistics request (get_pv_statistics, or get_pv_data with format
\* "summary") over a series with zero samples, or whose samples all lack a
\* value, fails: it never returns a report as success.
C1_UndefinedStatisticsFail ==
    \A r \in Requests :
        ( /\ Completed(r)
          /\ StatisticsRequested(r)
          /\ FetchedSeries(r)
          /\ PresentRecords(WireSamples(r)) = << >> )
        => ~IsReport(result[r])

\* C2: in a statistics report first_value is the value of the first record
\* in buffer order that carries a value, and last_value that of the last
\* such record, also when the first or last record carries none.
C2_FirstLastPresentValue ==
    \A r \in Requests :
        ( /\ Completed(r)
          /\ name[r] = "get_pv_statistics"
          /\ IsReport(result[r]) )
        => LET xs == PresentRecords(WireSamples(r))
               st == ReportBody(result[r]).statistics
           IN  /\ xs # << >>
               /\ st.first_value = Float(xs[1].val[1])
               /\ st.last_value = Float(xs[Len(xs)].val[1])

C4_EmptyBufferDecodes ==
    /\ (df_out # NotCalled /\ ByteLen(buffer) = 0)
          => (df_out.raised = "None" /\ df_out.df.rows = << >>)
    /\ (dict_out # NotCalled /\ ByteLen(buffer) = 0)
          => dict_out.raised = "None"

\* C5: a malformed buffer and a non-empty buffer without year header end
\* in different kinds of failure, which the caller can tell apart without
\* reading the message text, and neither ends as a successful report.
C5_TypedDecodeFailures ==
    \A r \in Requests :
        ( /\ Completed(r)
          /\ response[r].kind = "ok"
          /\ response[r].content = MalformedBytes )
        => LET other == ExpectedResult(name[r], arguments[r], MissingYearBytes)
           IN  /\ ~IsReport(result[r])
               /\ ~IsReport(other)
               /\ OutcomeKind(result[r]) # OutcomeKind(other)

\* C6: when the fetch of a tool call returned None or a zero-length buffer
\* the call returns its "no data" message and never calls the parser; the
\* parser is called (once) only after a fetch that returned a non-empty
\* buffer.
C6_NoDataSkipsDecoder ==
    \A r \in Requests :
        /\ parser_calls[r] <= 1
        /\ parser_calls[r] > 0 =>
              (Completed(r) /\ fetches[r] = 1 /\ FetchedData(r))
        /\ (Completed(r) /\ ~FetchedData(r)) =>
              (parser_calls[r] = 0 /\ IsNoDataMessage(result[r]))
        /\ (Completed(r) /\ FetchedData(r)) =>
              (parser_calls[r] = 1 /\ ~IsNoDataMessage(result[r]))

C6_Witness ==
    \E r \in Requests :
        /\ Completed(r)
        /\ response[r].kind = "ok"
        /\ ByteLen(response[r].content) = 0
        /\ parser_calls[r] = 0
        /\ IsNoDataMessage(result[r])

DecodesRecords(exactly) ==
    ( /\ df_out # NotCalled
      /\ buffer.wire = "payload"
      /\ buffer.has_info )
    => /\ df_out.raised = "None"
       /\ Len(df_out.df.rows) = Len(buffer.sample)
       /\ \A i \in 1..Len(buffer.sample) :
            LET smp == buffer.sample[i]
                row == df_out.df.rows[i]
                sec == BaseTimestamp(buffer.year) + smp.secondsintoyear
                          + (smp.nano \div NanosPerSecond)
                ns == smp.nano % NanosPerSecond
                d == row.timestamp.sec - sec
            IN  /\ IF smp.val = << >> THEN IsNone(row.value) \/ IsNaN(row.value)
                   ELSE row.value = Float(smp.val[1])
                /\ row.severity = smp.severity
                /\ row.status = smp.status
                /\ d \in {-1, 0, 1}
                /\ IF exactly
                   THEN d = 0 /\ row.timestamp.us * 1000 = ns
                   ELSE AbsDiff(d * NanosPerSecond + row.timestamp.us * 1000, ns) < 1000

C9_ResultDependsOnOwnFetch ==
    \A r \in Requests :
        Completed(r) =>
            result[r] = ExpectedResult(name[r], arguments[r], fetch_pv_data(response[r]))

C9_Witness ==
    /\ Completed(1)
    /\ Completed(2)
    /\ name[1] = name[2]
    /\ arguments[1] = arguments[2]
    /\ response[1] # response[2]
    /\ IsReport(result[1])
    /\ ~IsReport(result[2])

\* C10: a call of get_pv_data or get_pv_statistics never raises and ends
\* by returning exactly one text content, whatever the fetch and the
\* decoding did; a call whose fetch has returned is one of the two tools,
\* whose remaining steps have no other guard.  Only an unknown tool name
\* raises (ValueError), before any fetch is issued.
C10_AlwaysOneTextResult ==
    \A r \in Requests :
        /\ pc[r] = "raised" =>
              /\ name[r] \notin ToolNames
              /\ result[r] = Raised("ValueError")
              /\ fetches[r] = 0
              /\ response[r] = Unset
        /\ (pc[r] # "idle" /\ name[r] \notin ToolNames) => pc[r] = "raised"
        /\ pc[r] = "done" =>
              /\ "returned" \in DOMAIN result[r]
              /\ Len(result[r].returned) = 1
              /\ result[r].returned[1].type = "text"
        /\ pc[r] = "fetched" => name[r] \in ToolNames

C10_Witness ==
    \E r \in Requests :
        /\ pc[r] = "done"
        /\ name[r] = "get_pv_statistics"
        /\ FetchedSeries(r)
        /\ "message" \in DOMAIN result[r].returned[1].text
        /\ result[r].returned[1].text.message = "Error calculating statistics"
        /\ result[r].returned[1].text.error = "TypeError"

====
